---- MODULE Spec2Model ----
(***************************************************************************)
(* Model of terraform-provider-static-file-deploy: the deployer package    *)
(* (Deployment.Deploy, HashesForArtifact, HashesForDeployedFiles) and the  *)
(* staticfiledeploy_deployment resource (Create, Read, Update, Delete),    *)
(* running against a versioned source bucket and a target bucket.          *)
(***************************************************************************)
EXTENDS Integers, Sequences, FiniteSets, TLC

VARIABLES
    source,     \* versions of the ZIP object in the source bucket, oldest first
    target,     \* objects of the target bucket: key -> [content, ctype]
    tfstate,    \* the resource state Terraform has persisted
    deployed,   \* FingerprintSet returned by the Deploy of the last successful apply
    call,       \* the operation that ran last and its arguments
    ret,        \* what the deployer call inside it returned
    plan,       \* the planned values the handler was given (req.Plan)
    resp,       \* what the resource handler handed back to Terraform
    gets,       \* GetObject requests the operation issued
    puts,       \* PutObject requests the operation issued
    lists,      \* number of ListObjectsV2 requests the operation issued
    runs        \* successful Deploy runs in a row with one locator (0, 1, 2 = more)

vars ==
    <<source, target, tfstate, deployed, call, ret, plan, resp, gets, puts, lists, runs>>

----------------------------------------------------------------------------
(* Bounds and universes *)

MaxVersions == 2

Slash == "/"
Quote == "\""

SourceBucket == <<"s">>
ZipKey == <<"k">>
TargetBucket == "t"

\* source attribute values: "s/k", "s/d/k", "sk", "s/", "/k"
Sources ==
    { <<"s", "/", "k">>, <<"s", "/", "d", "/", "k">>, <<"s", "k">>,
      <<"s", "/">>, <<"/", "k">> }

VersionIds == 1 .. MaxVersions
NoVersion == 0

----------------------------------------------------------------------------
(* Archives *)

File(n, c) == [name |-> n, content |-> c, readable |-> TRUE]
Corrupt(n) == [name |-> n, content |-> "", readable |-> FALSE]

Zip(files) == [isZip |-> TRUE, files |-> files]
NotZip == [isZip |-> FALSE, files |-> <<>>]

TestZip2 ==
    Zip(<<File("file1.txt", "A"), File("file2.txt", "C"), File("file3.txt", "D")>>)
DupZip == Zip(<<File("file1.txt", "A"), File("file1.txt", "B")>>)
CorruptZip == Zip(<<File("file1.txt", "A"), Corrupt("file2.txt")>>)

Bodies == {TestZip2, DupZip, CorruptZip, NotZip}

\* the archives of a web site: a style sheet and an image without extension,
\* and an entry whose name reads as a media type
SiteZip == Zip(<<File("style.css", "A"), File("logo", "P")>>)
MediaTypeZip == Zip(<<File("text/css", "B")>>)

SiteBodies == {SiteZip, MediaTypeZip}

\* the longest archive: the positions at which an upload can be made to fail
MaxFiles == CHOOSE n \in 0 .. 8 :
    /\ \A b \in Bodies : Len(b.files) <= n
    /\ \E b \in Bodies : Len(b.files) = n

----------------------------------------------------------------------------
(* Errors *)

\* wrap: the fmt.Errorf prefixes, outermost first; code: the innermost cause;
\* entry: the entry name the message text contains ("" when it contains none)
Err(wrap, code, entry) == [wrap |-> wrap, code |-> code, entry |-> entry]
NoErr == Err(<<>>, "", "")
Wrap(prefix, e) == [e EXCEPT !.wrap = <<prefix>> \o e.wrap]

\* What the environment does to one operation: nothing, or one failing
\* storage request.  A failing PutObject is an API error (the message holds
\* no object key) or a transport error (the message holds the request URL).
NoFault == [api |-> "", at |-> 0, code |-> "", url |-> FALSE]
GetFaults == {[api |-> "GetObject", at |-> 1, code |-> "RequestTimeout", url |-> FALSE]}
ListFaults == {[api |-> "ListObjectsV2", at |-> 1, code |-> "RequestTimeout", url |-> FALSE]}
PutFaults ==
    {[api |-> "PutObject", at |-> k, code |-> "AccessDenied", url |-> FALSE] :
        k \in 1 .. MaxFiles}
    \cup {[api |-> "PutObject", at |-> k, code |-> "RequestError", url |-> TRUE] :
            k \in 1 .. MaxFiles}

----------------------------------------------------------------------------
(* Pure helpers *)

\* hex.EncodeToString(md5(c)): a string, held as a sequence whose one
\* element stands for the 32 hex digits
MD5(c) ==
    CASE c = "A" -> <<"7fc56270e7a70fa81a5935b72eacbe29">>
      [] c = "B" -> <<"9d5ed678fe57bcca610140957afab571">>
      [] c = "C" -> <<"0d61f8370cad1d412f80b84d143e1257">>
      [] c = "D" -> <<"f623e75af30e62bbd73d6df5b50bb7b5">>
      [] c = "P" -> <<"44c29edb103a2872f519ad0c9a0fdaaa">>
      [] OTHER -> <<"d41d8cd98f00b204e9800998ecf8427e">>

EmptyMap == [n \in {} |-> <<>>]
EmptyBucket == [n \in {} |-> [content |-> "", ctype |-> ""]]

NoHashes == EmptyMap

\* strings.SplitN(s, "/", 2) on a string held as a sequence of characters
FirstIndex(s, sep) ==
    IF \E i \in 1 .. Len(s) : s[i] = sep
    THEN CHOOSE i \in 1 .. Len(s) :
            s[i] = sep /\ \A j \in 1 .. (i - 1) : s[j] # sep
    ELSE 0

\* variant: the split is made at the last separator
SplitAtLast(s, sep) ==
    LET i == IF \E j \in 1 .. Len(s) : s[j] = sep
             THEN CHOOSE j \in 1 .. Len(s) :
                     s[j] = sep /\ \A l \in (j + 1) .. Len(s) : s[l] # sep
             ELSE 0
    IN  IF i = 0 THEN <<s>>
        ELSE <<SubSeq(s, 1, i - 1), SubSeq(s, i + 1, Len(s))>>

SplitN2(s, sep) ==
    LET i == FirstIndex(s, sep)
    IN  IF i = 0 THEN <<s>>
        ELSE <<SubSeq(s, 1, i - 1), SubSeq(s, i + 1, Len(s))>>

\* strings.Trim(s, cutset) on a string held as a sequence of characters
RECURSIVE TrimLeft(_, _)
TrimLeft(s, cut) ==
    IF Len(s) > 0 /\ s[1] = cut THEN TrimLeft(Tail(s), cut) ELSE s

RECURSIVE TrimRight(_, _)
TrimRight(s, cut) ==
    IF Len(s) > 0 /\ s[Len(s)] = cut
    THEN TrimRight(SubSeq(s, 1, Len(s) - 1), cut)
    ELSE s

Trim(s, cut) == TrimRight(TrimLeft(s, cut), cut)

\* the extensions Go's mime table lists for a media type (nil when unknown)
MimeExtensions(typ) ==
    CASE typ = "text/css" -> <<".css">>
      [] typ = "text/html" -> <<".htm", ".html">>
      [] typ = "text/plain" -> <<".txt">>
      [] OTHER -> <<>>

\* mime.ExtensionsByType: its argument is read as a media type
ExtensionsByType(typ) == [exts |-> MimeExtensions(typ), failed |-> typ = ""]

\* http.DetectContentType: the payload "P" begins with the signature of a
\* PNG image, every other payload of the model is plain text
DetectContentType(content) ==
    IF content = "P" THEN "image/png" ELSE "text/plain; charset=utf-8"

----------------------------------------------------------------------------
(* The storage service *)

\* GetObject on the source bucket: the latest version unless one is named
GetObject(src, req, fault) ==
    IF fault.api = "GetObject"
    THEN [ok |-> FALSE, code |-> fault.code, body |-> NotZip]
    ELSE IF req.bucket # SourceBucket
    THEN [ok |-> FALSE, code |-> "NoSuchBucket", body |-> NotZip]
    ELSE IF req.key # ZipKey \/ Len(src) = 0
    THEN [ok |-> FALSE, code |-> "NoSuchKey", body |-> NotZip]
    ELSE IF req.version = NoVersion
    THEN [ok |-> TRUE, code |-> "", body |-> src[Len(src)]]
    ELSE IF req.version \notin 1 .. Len(src)
    THEN [ok |-> FALSE, code |-> "NoSuchVersion", body |-> NotZip]
    ELSE [ok |-> TRUE, code |-> "", body |-> src[req.version]]

\* PutObject: the object under req.key is replaced
PutObject(tgt, req) ==
    (req.key :> [content |-> req.body, ctype |-> req.ctype]) @@ tgt

\* the ETag the service reports for an object: the quoted MD5 of its bytes
ETag(obj) == <<Quote>> \o MD5(obj.content) \o <<Quote>>

PageSize == 2
KeyOrder ==
    <<"file1.txt", "file2.txt", "file3.txt", "logo", "style.css", "text/css">>

\* ListObjectsV2 without a continuation token: the first page, in key order
ListObjectsV2(tgt) ==
    LET present == SelectSeq(KeyOrder, LAMBDA k : k \in DOMAIN tgt)
        page == SubSeq(present, 1, IF Len(present) < PageSize
                                    THEN Len(present) ELSE PageSize)
    IN  [contents |-> [i \in 1 .. Len(page) |->
                          [key |-> page[i], etag |-> ETag(tgt[page[i]])]],
         isTruncated |-> Len(present) > PageSize]

----------------------------------------------------------------------------
(* package deployer *)

\* getDeploymentArtifact: the request it builds, the download, the unzip
GetObjectInput(bucket, key, version) ==
    IF version # NoVersion
    THEN [bucket |-> bucket, key |-> key, version |-> NoVersion]
    ELSE [bucket |-> bucket, key |-> key, version |-> version]

\* variant: a failed download is tried a second time
getDeploymentArtifactRetry(src, bucket, key, version, fault) ==
    LET req == GetObjectInput(bucket, key, version)
        first == GetObject(src, req, fault)
        got == IF first.ok THEN first ELSE GetObject(src, req, NoFault)
        sent == IF first.ok THEN <<req>> ELSE <<req, req>>
    IN  IF ~got.ok
        THEN [err |-> Err(<<"failed to download object from S3">>, got.code, ""),
              files |-> <<>>, gets |-> sent]
        ELSE IF ~got.body.isZip
        THEN [err |-> Err(<<"failed to unzip file">>, "zip: not a valid zip file", ""),
              files |-> <<>>, gets |-> sent]
        ELSE [err |-> NoErr, files |-> got.body.files, gets |-> sent]

getDeploymentArtifact(src, bucket, key, version, fault) ==
    LET req == GetObjectInput(bucket, key, version)
        got == GetObject(src, req, fault)
    IN  IF ~got.ok
        THEN [err |-> Err(<<"failed to download object from S3">>, got.code, ""),
              files |-> <<>>, gets |-> <<req>>]
        ELSE IF ~got.body.isZip
        THEN [err |-> Err(<<"failed to unzip file">>, "zip: not a valid zip file", ""),
              files |-> <<>>, gets |-> <<req>>]
        ELSE [err |-> NoErr, files |-> got.body.files, gets |-> <<req>>]

\* getDeploymentArtifactFileHashes: name -> md5 of the payload, in archive
\* order, aborting at the first entry that cannot be read
RECURSIVE HashLoop(_, _, _)
HashLoop(files, i, hashes) ==
    IF i > Len(files) THEN [err |-> NoErr, hashes |-> hashes]
    ELSE IF ~files[i].readable
    THEN [err |-> Err(<<"failed to read zipped file content">>,
                      "zip: checksum error", ""),
          hashes |-> NoHashes]
    ELSE HashLoop(files, i + 1,
                  (files[i].name :> MD5(files[i].content)) @@ hashes)

\* variant: of several entries with one name the first gives the fingerprint
hashesFirstWins(files) ==
    HashLoop([i \in 1 .. Len(files) |-> files[Len(files) + 1 - i]], 1, EmptyMap)

getDeploymentArtifactFileHashes(files) == HashLoop(files, 1, EmptyMap)

\* the content type an entry is uploaded with
ContentType(file) ==
    LET contentTypes == ExtensionsByType(file.name)
    IN  IF contentTypes.exts = <<>> \/ contentTypes.failed
        THEN DetectContentType(file.content)
        ELSE contentTypes.exts[1]

PutObjectInput(bucket, file) ==
    [bucket |-> bucket, key |-> file.name, body |-> file.content,
     ctype |-> ContentType(file)]

\* the error uploadDeploymentArtifactFiles returns for a failed PutObject
UploadError(req, fault) ==
    Err(<<"failed to upload object to S3">>, fault.code,
        IF fault.url THEN req.key ELSE "")

\* uploadDeploymentArtifactFiles: one PutObject per entry, in archive order,
\* returning at the first failure
RECURSIVE UploadLoop(_, _, _, _, _, _)
UploadLoop(files, i, bucket, tgt, sent, fault) ==
    IF i > Len(files) THEN [err |-> NoErr, target |-> tgt, puts |-> sent]
    ELSE IF ~files[i].readable
    THEN [err |-> Err(<<"failed to read zipped file content">>,
                      "zip: checksum error", ""),
          target |-> tgt, puts |-> sent]
    ELSE LET req == PutObjectInput(bucket, files[i])
         IN  IF fault.api = "PutObject" /\ fault.at = Len(sent) + 1
             THEN [err |-> UploadError(req, fault),
                   target |-> tgt, puts |-> Append(sent, req)]
             ELSE UploadLoop(files, i + 1, bucket, PutObject(tgt, req),
                             Append(sent, req), fault)

\* variant: the loop ends one entry early
uploadAllButLast(files, bucket, tgt, fault) ==
    UploadLoop(SubSeq(files, 1, Len(files) - 1), 1, bucket, tgt, <<>>, fault)

\* variant: a failed PutObject is remembered and the loop goes on
RECURSIVE KeepGoingLoop(_, _, _, _, _, _, _)
KeepGoingLoop(files, i, bucket, tgt, sent, fault, first) ==
    IF i > Len(files) THEN [err |-> first, target |-> tgt, puts |-> sent]
    ELSE IF ~files[i].readable
    THEN [err |-> Err(<<"failed to read zipped file content">>,
                      "zip: checksum error", ""),
          target |-> tgt, puts |-> sent]
    ELSE LET req == PutObjectInput(bucket, files[i])
         IN  IF fault.api = "PutObject" /\ fault.at = Len(sent) + 1
             THEN KeepGoingLoop(files, i + 1, bucket, tgt, Append(sent, req),
                                fault, UploadError(req, fault))
             ELSE KeepGoingLoop(files, i + 1, bucket, PutObject(tgt, req),
                                Append(sent, req), fault, first)

uploadKeepGoing(files, bucket, tgt, fault) ==
    KeepGoingLoop(files, 1, bucket, tgt, <<>>, fault, NoErr)

\* variant: the target is mirrored: what the archive does not hold is removed
uploadMirror(files, bucket, tgt, fault) ==
    UploadLoop(files, 1, bucket, EmptyBucket, <<>>, fault)

uploadDeploymentArtifactFiles(files, bucket, tgt, fault) ==
    UploadLoop(files, 1, bucket, tgt, <<>>, fault)

NoRet == [called |-> FALSE, err |-> NoErr, hashes |-> NoHashes]
Returned(err, hashes) == [called |-> TRUE, err |-> err, hashes |-> hashes]

\* variant: only the entries the target lacks are uploaded and fingerprinted
DeployDifferential(src, tgt, sourceBucket, targetBucket, key, version, fault) ==
    LET artifactZip == getDeploymentArtifact(src, sourceBucket, key, version, fault)
        missing == SelectSeq(artifactZip.files, LAMBDA f : f.name \notin DOMAIN tgt)
        upload == UploadLoop(missing, 1, targetBucket, tgt, <<>>, fault)
        hashed == HashLoop(missing, 1, EmptyMap)
    IN  IF artifactZip.err # NoErr
        THEN [ret |-> Returned(artifactZip.err, NoHashes), target |-> tgt,
              gets |-> artifactZip.gets, puts |-> <<>>]
        ELSE IF upload.err # NoErr
        THEN [ret |-> Returned(upload.err, NoHashes), target |-> upload.target,
              gets |-> artifactZip.gets, puts |-> upload.puts]
        ELSE IF hashed.err # NoErr
        THEN [ret |-> Returned(hashed.err, NoHashes), target |-> upload.target,
              gets |-> artifactZip.gets, puts |-> upload.puts]
        ELSE [ret |-> Returned(NoErr, hashed.hashes), target |-> upload.target,
              gets |-> artifactZip.gets, puts |-> upload.puts]

\* variant: the fingerprints are returned also when an upload failed
DeployKeepsHashes(src, tgt, sourceBucket, targetBucket, key, version, fault) ==
    LET artifactZip == getDeploymentArtifact(src, sourceBucket, key, version, fault)
        upload == uploadDeploymentArtifactFiles(artifactZip.files, targetBucket,
                                                tgt, fault)
        hashed == getDeploymentArtifactFileHashes(artifactZip.files)
    IN  IF artifactZip.err # NoErr
        THEN [ret |-> Returned(artifactZip.err, NoHashes), target |-> tgt,
              gets |-> artifactZip.gets, puts |-> <<>>]
        ELSE IF upload.err # NoErr
        THEN [ret |-> Returned(upload.err, hashed.hashes), target |-> upload.target,
              gets |-> artifactZip.gets, puts |-> upload.puts]
        ELSE IF hashed.err # NoErr
        THEN [ret |-> Returned(hashed.err, NoHashes), target |-> upload.target,
              gets |-> artifactZip.gets, puts |-> upload.puts]
        ELSE [ret |-> Returned(NoErr, hashed.hashes), target |-> upload.target,
              gets |-> artifactZip.gets, puts |-> upload.puts]

\* Deployment.Deploy(key, version) of NewDeployment(sourceBucket, targetBucket)
Deploy(src, tgt, sourceBucket, targetBucket, key, version, fault) ==
    LET artifactZip == getDeploymentArtifact(src, sourceBucket, key, version, fault)
        upload == uploadDeploymentArtifactFiles(artifactZip.files, targetBucket,
                                                tgt, fault)
        hashed == getDeploymentArtifactFileHashes(artifactZip.files)
    IN  IF artifactZip.err # NoErr
        THEN [ret |-> Returned(artifactZip.err, NoHashes), target |-> tgt,
              gets |-> artifactZip.gets, puts |-> <<>>]
        ELSE IF upload.err # NoErr
        THEN [ret |-> Returned(upload.err, NoHashes), target |-> upload.target,
              gets |-> artifactZip.gets, puts |-> upload.puts]
        ELSE IF hashed.err # NoErr
        THEN [ret |-> Returned(hashed.err, NoHashes), target |-> upload.target,
              gets |-> artifactZip.gets, puts |-> upload.puts]
        ELSE [ret |-> Returned(NoErr, hashed.hashes), target |-> upload.target,
              gets |-> artifactZip.gets, puts |-> upload.puts]

\* Deployment.HashesForArtifact(key, version)
HashesForArtifact(src, sourceBucket, key, version, fault) ==
    LET artifactZip == getDeploymentArtifact(src, sourceBucket, key, version, fault)
        hashed == getDeploymentArtifactFileHashes(artifactZip.files)
    IN  IF artifactZip.err # NoErr
        THEN [ret |-> Returned(artifactZip.err, NoHashes), gets |-> artifactZip.gets]
        ELSE IF hashed.err # NoErr
        THEN [ret |-> Returned(hashed.err, NoHashes), gets |-> artifactZip.gets]
        ELSE [ret |-> Returned(NoErr, hashed.hashes), gets |-> artifactZip.gets]

\* Deployment.HashesForDeployedFiles(): one listing request, key -> ETag
\* with the surrounding quotes trimmed
HashesForDeployedFiles(tgt, fault) ==
    IF fault.api = "ListObjectsV2"
    THEN Returned(Err(<<"error listing objects in target bucket">>, fault.code, ""),
                  NoHashes)
    ELSE LET resp0 == ListObjectsV2(tgt)
         IN  Returned(NoErr,
                      [k \in {resp0.contents[i].key : i \in DOMAIN resp0.contents} |->
                          LET object == CHOOSE o \in {resp0.contents[i] :
                                                      i \in DOMAIN resp0.contents} :
                                            o.key = k
                          IN  Trim(object.etag, Quote)])

----------------------------------------------------------------------------
(* package provider: the staticfiledeploy_deployment resource *)

\* DeploymentResourceModel
Model(src, ver, tgt) ==
    [exists |-> TRUE, source |-> src, source_version |-> ver, target |-> tgt]
NoState == [exists |-> FALSE, source |-> <<>>, source_version |-> NoVersion, target |-> ""]

Plans == {Model(s, v, TargetBucket) : s \in Sources, v \in VersionIds}

\* A request is made to fail only where it would otherwise be answered: in an
\* operation whose source names the stored ZIP object
ApplyInputs ==
    {in \in Plans \X ({NoFault} \cup GetFaults \cup PutFaults) :
        in[2] = NoFault \/ SplitN2(in[1].source, Slash) = <<SourceBucket, ZipKey>>}

\* the attributes of the resource's schema
SchemaAttributes == {"source", "source_version", "target"}

\* the fingerprints a resource state carries: DeploymentResourceModel has
\* the attributes source, source_version and target, and no files
Files(state) == EmptyMap

Response(error, state) == [called |-> TRUE, error |-> error, state |-> state]
NoResp == [called |-> FALSE, error |-> NoErr, state |-> NoState]

\* the version runDeployment and Read hand to the deployer
DeployVersion(data) == NoVersion

\* runDeployment(data)
runDeployment(data, src, tgt, fault) ==
    LET sourceParts == SplitN2(data.source, Slash)
    IN  IF Len(sourceParts) # 2
        THEN [err |-> Err(<<>>, "invalid source format", ""), ret |-> NoRet,
              key |-> <<>>, target |-> tgt, gets |-> <<>>, puts |-> <<>>]
        ELSE LET d == Deploy(src, tgt, sourceParts[1], data.target,
                             sourceParts[2], DeployVersion(data), fault)
             IN  [err |-> IF d.ret.err # NoErr
                          THEN Wrap("Error during deployment", d.ret.err)
                          ELSE NoErr,
                  ret |-> d.ret, key |-> sourceParts[2], target |-> d.target,
                  gets |-> d.gets, puts |-> d.puts]

Called(name, src, key, version) ==
    [name |-> name, source |-> src, key |-> key, version |-> version]

\* the length of the row of successful Deploy runs after one more run
RunsAfter(r, key, version) ==
    IF ~r.called \/ r.err # NoErr THEN 0
    ELSE IF runs > 0 /\ call.key = key /\ call.version = version THEN 2
    ELSE 1

\* variant: the planned values are written whatever runDeployment returned
ApplyAlways(err, prior, data) == Response(err, data)

\* what Create and Update hand back after runDeployment: an error
\* diagnostic and the state left as it was, or the planned values
ApplyResponse(err, prior, data) ==
    IF err # NoErr THEN Response(err, prior) ELSE Response(NoErr, data)

\* Create: req.Plan -> runDeployment -> resp.State
Create(data, fault) ==
    /\ ~tfstate.exists
    /\ \E r \in {runDeployment(data, source, target, fault)} :
           /\ resp' = ApplyResponse(r.err, NoState, data)
           /\ tfstate' = resp'.state
           /\ deployed' = IF r.err = NoErr THEN r.ret.hashes ELSE deployed
           /\ target' = r.target
           /\ ret' = r.ret
           /\ gets' = r.gets
           /\ puts' = r.puts
           /\ lists' = 0
           /\ call' = Called("Create", data.source, r.key, DeployVersion(data))
           /\ plan' = data
           /\ runs' = RunsAfter(r.ret, r.key, DeployVersion(data))
    /\ UNCHANGED source

\* Update: as Create, on a resource that has a state
Update(data, fault) ==
    /\ tfstate.exists
    /\ \E r \in {runDeployment(data, source, target, fault)} :
           /\ resp' = ApplyResponse(r.err, tfstate, data)
           /\ tfstate' = resp'.state
           /\ deployed' = IF r.err = NoErr THEN r.ret.hashes ELSE deployed
           /\ target' = r.target
           /\ ret' = r.ret
           /\ gets' = r.gets
           /\ puts' = r.puts
           /\ lists' = 0
           /\ call' = Called("Update", data.source, r.key, DeployVersion(data))
           /\ plan' = data
           /\ runs' = RunsAfter(r.ret, r.key, DeployVersion(data))
    /\ UNCHANGED source

\* what Read hands back: resp.State starts as req.State; a bad source adds an
\* error diagnostic, a failed HashesForArtifact returns without one
ReadResponse(state, parts, h) ==
    IF Len(parts) # 2
    THEN Response(Err(<<"Could not read source format">>, "invalid source format", ""),
                  state)
    ELSE IF h.ret.err # NoErr
    THEN Response(NoErr, state)
    ELSE Response(NoErr, state)

\* variant: the refresh deploys again instead of fingerprinting the archive
ReadRedeploys(fault) ==
    /\ tfstate.exists
    /\ \E r \in {runDeployment(tfstate, source, target, fault)} :
           /\ resp' = Response(NoErr, tfstate)
           /\ target' = r.target
           /\ ret' = r.ret
           /\ gets' = r.gets
           /\ puts' = r.puts
           /\ call' = Called("Read", tfstate.source, r.key, DeployVersion(tfstate))
    /\ plan' = NoState
    /\ lists' = 0
    /\ runs' = 0
    /\ UNCHANGED <<source, tfstate, deployed>>

\* Read: req.State -> HashesForArtifact -> resp.State
Read(fault) ==
    /\ tfstate.exists
    /\ LET state == tfstate
           sourceParts == SplitN2(state.source, Slash)
           h == IF Len(sourceParts) # 2
                THEN [ret |-> NoRet, gets |-> <<>>]
                ELSE HashesForArtifact(source, sourceParts[1], sourceParts[2],
                                       DeployVersion(state), fault)
       IN  /\ resp' = ReadResponse(state, sourceParts, h)
           /\ tfstate' = resp'.state
           /\ ret' = h.ret
           /\ gets' = h.gets
           /\ call' = Called("Read", state.source,
                             IF Len(sourceParts) = 2 THEN sourceParts[2] ELSE <<>>,
                             DeployVersion(state))
    /\ plan' = NoState
    /\ puts' = <<>>
    /\ lists' = 0
    /\ runs' = 0
    /\ UNCHANGED <<source, target, deployed>>

\* variant: the teardown removes the deployed objects from the target
DeleteCleansTarget ==
    /\ tfstate.exists
    /\ plan' = NoState
    /\ resp' = Response(NoErr, NoState)
    /\ tfstate' = NoState
    /\ deployed' = EmptyMap
    /\ ret' = NoRet
    /\ gets' = <<>>
    /\ puts' = <<>>
    /\ lists' = 1
    /\ call' = Called("Delete", tfstate.source, <<>>, NoVersion)
    /\ runs' = 0
    /\ target' = EmptyBucket
    /\ UNCHANGED source

\* Delete: reads the state and does nothing else; Terraform then drops the
\* resource from its state
Delete ==
    /\ tfstate.exists
    /\ plan' = NoState
    /\ resp' = Response(NoErr, NoState)
    /\ tfstate' = NoState
    /\ deployed' = EmptyMap
    /\ ret' = NoRet
    /\ gets' = <<>>
    /\ puts' = <<>>
    /\ lists' = 0
    /\ call' = Called("Delete", tfstate.source, <<>>, NoVersion)
    /\ runs' = 0
    /\ UNCHANGED <<source, target>>

----------------------------------------------------------------------------
(* Direct use of the deployer package *)

CallDeploy(key, version, fault) ==
    /\ \E d \in {Deploy(source, target, SourceBucket, TargetBucket, key, version, fault)} :
           /\ ret' = d.ret
           /\ target' = d.target
           /\ gets' = d.gets
           /\ puts' = d.puts
           /\ runs' = RunsAfter(d.ret, key, version)
    /\ lists' = 0
    /\ plan' = NoState
    /\ resp' = NoResp
    /\ call' = Called("Deploy", <<>>, key, version)
    /\ UNCHANGED <<source, tfstate, deployed>>

CallHashesForArtifact(key, version, fault) ==
    /\ \E h \in {HashesForArtifact(source, SourceBucket, key, version, fault)} :
           /\ ret' = h.ret
           /\ gets' = h.gets
    /\ puts' = <<>>
    /\ lists' = 0
    /\ plan' = NoState
    /\ resp' = NoResp
    /\ call' = Called("HashesForArtifact", <<>>, key, version)
    /\ runs' = 0
    /\ UNCHANGED <<source, target, tfstate, deployed>>

CallHashesForDeployedFiles(fault) ==
    /\ ret' = HashesForDeployedFiles(target, fault)
    /\ gets' = <<>>
    /\ puts' = <<>>
    /\ lists' = 1
    /\ plan' = NoState
    /\ resp' = NoResp
    /\ call' = Called("HashesForDeployedFiles", <<>>, <<>>, NoVersion)
    /\ runs' = 0
    /\ UNCHANGED <<source, target, tfstate, deployed>>

----------------------------------------------------------------------------
(* The build stage: a new version of the ZIP arrives in the source bucket *)

uploadZIPToS3(body) ==
    /\ Len(source) < MaxVersions
    /\ source' = Append(source, body)
    /\ call' = Called("uploadZIPToS3", <<>>, ZipKey, NoVersion)
    /\ ret' = NoRet
    /\ plan' = NoState
    /\ resp' = NoResp
    /\ gets' = <<>>
    /\ puts' = <<>>
    /\ lists' = 0
    /\ runs' = 0
    /\ UNCHANGED <<target, tfstate, deployed>>

----------------------------------------------------------------------------
(* Specification *)

Init ==
    /\ source = <<>>
    /\ target = EmptyBucket
    /\ tfstate = NoState
    /\ deployed = EmptyMap
    /\ call = Called("", <<>>, <<>>, NoVersion)
    /\ ret = NoRet
    /\ plan = NoState
    /\ resp = NoResp
    /\ gets = <<>>
    /\ puts = <<>>
    /\ lists = 0
    /\ runs = 0

Next ==
    \/ \E body \in Bodies : uploadZIPToS3(body)
    \/ \E in \in ApplyInputs : Create(in[1], in[2])
    \/ \E in \in ApplyInputs : Update(in[1], in[2])
    \/ \E fault \in {NoFault} \cup GetFaults : Read(fault)
    \/ Delete
    \/ \E version \in {NoVersion} \cup VersionIds,
          fault \in {NoFault} \cup GetFaults \cup PutFaults :
          CallDeploy(ZipKey, version, fault)
    \/ \E version \in {NoVersion} \cup VersionIds, fault \in {NoFault} \cup GetFaults :
          CallHashesForArtifact(ZipKey, version, fault)
    \/ \E fault \in {NoFault} \cup ListFaults : CallHashesForDeployedFiles(fault)

Spec == Init /\ [][Next]_vars

\* The handlers decode the state Terraform hands them (req.State) and do not
\* know who wrote it: the same system, started from any stored resource state
InitRefresh ==
    /\ source = <<>>
    /\ target = EmptyBucket
    /\ tfstate \in {NoState} \cup Plans
    /\ deployed = EmptyMap
    /\ call = Called("", <<>>, <<>>, NoVersion)
    /\ ret = NoRet
    /\ plan = NoState
    /\ resp = NoResp
    /\ gets = <<>>
    /\ puts = <<>>
    /\ lists = 0
    /\ runs = 0

\* the resource handlers and the build stage
NextRefresh ==
    \/ \E body \in Bodies : uploadZIPToS3(body)
    \/ \E in \in ApplyInputs : Create(in[1], in[2])
    \/ \E in \in ApplyInputs : Update(in[1], in[2])
    \/ \E fault \in {NoFault} \cup GetFaults : Read(fault)
    \/ Delete

SpecRefresh == InitRefresh /\ [][NextRefresh]_vars

\* the deployer package used on the archives of a web site
NextSite ==
    \/ \E body \in SiteBodies : uploadZIPToS3(body)
    \/ \E fault \in {NoFault} \cup GetFaults \cup PutFaults :
          CallDeploy(ZipKey, NoVersion, fault)
    \/ \E fault \in {NoFault} \cup ListFaults : CallHashesForDeployedFiles(fault)

SpecSite == Init /\ [][NextSite]_vars

----------------------------------------------------------------------------
(* Vocabulary of the properties *)

\* the operation that ran last called Deployment.Deploy
DeployRan == call.name \in {"Deploy", "Create", "Update"} /\ ret.called
DeploySucceeded == DeployRan /\ ret.err = NoErr

\* the archive the storage service answered the issued GetObject request with
Fetched == GetObject(source, gets[1], NoFault).body.files

EntryNames(files) == {files[i].name : i \in DOMAIN files}

\* the payload of the last entry of the archive that bears the name
LastPayload(files, n) ==
    LET i == CHOOSE j \in DOMAIN files :
                /\ files[j].name = n
                /\ \A l \in DOMAIN files : files[l].name = n => l <= j
    IN  files[i].content

\* the content identifier the storage service reports, without its quotes
ContentId(object) == Trim(ETag(object), Quote)

\* Deploy returned the error of a failed PutObject
UploadFailed == DeployRan /\ ret.err.wrap = <<"failed to upload object to S3">>

----------------------------------------------------------------------------
(* C1 *)

\* C1: every GetObject request issued by Deploy or HashesForArtifact for a
\* locator carries the version id the caller supplied, and carries none when
\* the caller supplied none.
C1_RequestCarriesVersion ==
    call.name \in {"Deploy", "HashesForArtifact"} =>
        \A i \in DOMAIN gets : gets[i].version = call.version

----------------------------------------------------------------------------
(* C2 *)

\* C2: after a successful Create or Update of a resource whose source object
\* has several stored versions, the objects written to the target are the
\* entries of the version whose id equals source_version.
C2_DeploysSourceVersion ==
    ( /\ call.name \in {"Create", "Update"}
      /\ resp.error = NoErr
      /\ Len(source) > 1
      /\ resp.state.source_version \in 1 .. Len(source) ) =>
        LET named == source[resp.state.source_version].files
        IN  /\ Len(puts) = Len(named)
            /\ \A i \in DOMAIN puts :
                  puts[i].key = named[i].name /\ puts[i].body = named[i].content

----------------------------------------------------------------------------
(* C3 *)

\* C3 as stated: after a successful Deploy of archive A, every entry of A is
\* stored in the target under its name with content identifier md5(payload),
\* the returned FingerprintSet is {name -> md5(payload)} over A's entries, and
\* a target that was empty before holds exactly A's entries.
C3_EveryEntryStored ==
    [][DeploySucceeded' =>
        LET A == Fetched'
        IN  /\ \A i \in DOMAIN A :
                  /\ A[i].name \in DOMAIN target'
                  /\ ContentId(target'[A[i].name]) = MD5(A[i].content)
                  /\ A[i].name \in DOMAIN ret'.hashes
                  /\ ret'.hashes[A[i].name] = MD5(A[i].content)
            /\ DOMAIN ret'.hashes = EntryNames(A)
            /\ (target = EmptyBucket => DOMAIN target' = EntryNames(A))]_vars

\* C3 amended: after a successful Deploy of archive A, every name of A is
\* stored in the target with content identifier md5 of the payload of the
\* last entry of A bearing that name, the returned FingerprintSet maps exactly
\* the names of A to those values, and a target that was empty before holds
\* exactly the names of A.
C3_LastEntryStored ==
    [][DeploySucceeded' =>
        LET A == Fetched'
        IN  /\ \A n \in EntryNames(A) :
                  /\ n \in DOMAIN target'
                  /\ ContentId(target'[n]) = MD5(LastPayload(A, n))
                  /\ n \in DOMAIN ret'.hashes
                  /\ ret'.hashes[n] = MD5(LastPayload(A, n))
            /\ DOMAIN ret'.hashes = EntryNames(A)
            /\ (target = EmptyBucket => DOMAIN target' = EntryNames(A))]_vars

\* a Deploy of the archive with two entries of one name succeeded on a target
\* that an earlier Deploy of the three-entry archive had filled
C3_Witness ==
    /\ DeploySucceeded
    /\ Fetched = DupZip.files
    /\ DOMAIN target = {"file1.txt", "file2.txt", "file3.txt"}
    /\ target["file1.txt"].content = "B"

----------------------------------------------------------------------------
(* C4 *)

\* C4: two consecutive successful runs of Deploy with the same locator, with
\* no other writer in between, return identical FingerprintSets and leave the
\* target's objects after the second run as they were after the first.
C4_DeployIdempotent ==
    [][( /\ DeploySucceeded
         /\ DeploySucceeded'
         /\ call'.key = call.key
         /\ call'.version = call.version ) =>
            /\ ret'.hashes = ret.hashes
            /\ target' = target]_vars

\* the second of two successful runs in a row has just ended
C4_Witness == runs = 2 /\ DeploySucceeded /\ Len(Fetched) = 3

----------------------------------------------------------------------------
(* C5 *)

\* C5: if the upload of the k-th entry fails, Deploy returns an error and no
\* FingerprintSet, the PutObject requests issued are those of entries 1..k in
\* archive order and no more, and entries 1..k-1 are stored in the target.
C5_PartialFailureContained ==
    UploadFailed =>
        LET A == Fetched
            k == Len(puts)
            done == SubSeq(A, 1, k - 1)
        IN  /\ ret.err # NoErr
            /\ ret.hashes = NoHashes
            /\ k \in 1 .. Len(A)
            /\ \A i \in 1 .. k :
                  puts[i].key = A[i].name /\ puts[i].body = A[i].content
            /\ \A n \in EntryNames(done) :
                  /\ n \in DOMAIN target
                  /\ target[n].content = LastPayload(done, n)
            /\ (call.name \in {"Create", "Update"} => resp.error # NoErr)

\* the upload of the 2nd of 3 entries failed: the 1st is stored, the 3rd is not
C5_Witness ==
    /\ UploadFailed
    /\ Len(Fetched) = 3
    /\ Len(puts) = 2
    /\ "file1.txt" \in DOMAIN target
    /\ "file3.txt" \notin DOMAIN target

----------------------------------------------------------------------------
(* C6 *)

\* C6: when the upload of an entry fails during Deploy, the error returned
\* to the caller contains the name of the failing entry.
C6_ErrorNamesEntry ==
    UploadFailed => ret.err.entry = puts[Len(puts)].key

----------------------------------------------------------------------------
(* C7 *)

\* C7: no operation removes an object from the target: every object present
\* before a step is present after it, and with the content it had unless the
\* step issued a PutObject for its name.
C7_NeverDeletes ==
    [][\A n \in DOMAIN target :
          /\ n \in DOMAIN target'
          /\ (\A i \in DOMAIN puts' : puts'[i].key # n) => target'[n] = target[n]]_vars

\* after an apply of the three-entry archive and then an apply of an archive
\* that holds file1.txt alone, file2.txt and file3.txt are still in the target
\* with the content the first gave them
C7_Witness ==
    /\ call.name = "Update"
    /\ DeploySucceeded
    /\ EntryNames(Fetched) = {"file1.txt"}
    /\ "file2.txt" \in DOMAIN target
    /\ "file3.txt" \in DOMAIN target
    /\ target["file2.txt"].content = "C"
    /\ target["file3.txt"].content = "D"

----------------------------------------------------------------------------
(* C8 *)

\* C8: a successful Read returns a FingerprintSet whose names are the names of
\* the FingerprintSet recorded by the last deployment; a name the source
\* archive holds has the current source fingerprint, a name it no longer
\* holds is marked empty.
C8_DriftReported ==
    (call.name = "Read" /\ ret.called /\ ret.err = NoErr) =>
        LET current == ret.hashes
            reported == Files(resp.state)
        IN  /\ DOMAIN reported = DOMAIN deployed
            /\ \A n \in DOMAIN reported :
                  reported[n] = IF n \in DOMAIN current THEN current[n] ELSE <<>>

----------------------------------------------------------------------------
(* C9 *)

\* C9: Read, HashesForArtifact and HashesForDeployedFiles issue no PutObject
\* and leave the target bucket as it was, whether they succeed or fail.
C9_DriftCheckReadOnly ==
    [][call'.name \in {"Read", "HashesForArtifact", "HashesForDeployedFiles"} =>
          puts' = <<>> /\ target' = target]_vars

\* a Read whose download failed ended on a target that holds objects
C9_Witness ==
    /\ call.name = "Read"
    /\ ret.err # NoErr
    /\ resp.called
    /\ puts = <<>>
    /\ DOMAIN target = {"file1.txt", "file2.txt", "file3.txt"}

----------------------------------------------------------------------------
(* C10 *)

\* C10: whenever the fetch, the unzip or the reading of an entry fails during
\* Read, Read reports an error to its caller.
C10_ReadReportsFailure ==
    (call.name = "Read" /\ ret.called /\ ret.err # NoErr) => resp.error # NoErr

----------------------------------------------------------------------------
(* C11 *)

\* C11: Create, Update and Read split the source string at its first '/':
\* the GetObject request they issue names as bucket the text before it (which
\* holds no '/') and as key all the text after it; a source string without a
\* '/' ends in an "invalid source format" error with no call of the deployer
\* and no GetObject, PutObject or ListObjectsV2 request.
C11_SplitOnFirstSlash ==
    call.name \in {"Create", "Update", "Read"} =>
        IF \E i \in DOMAIN call.source : call.source[i] = Slash
        THEN /\ ret.called
             /\ Len(gets) = 1
             /\ \A i \in DOMAIN gets[1].bucket : gets[1].bucket[i] # Slash
             /\ gets[1].bucket \o <<Slash>> \o gets[1].key = call.source
        ELSE /\ resp.error.code = "invalid source format"
             /\ ~ret.called
             /\ gets = <<>>
             /\ puts = <<>>
             /\ lists = 0

\* a Read of a stored state whose source holds no '/' was rejected
C11_Witness ==
    /\ call.name = "Read"
    /\ call.source = <<"s", "k">>
    /\ resp.error.code = "invalid source format"
    /\ gets = <<>>
    /\ Len(source) > 0

----------------------------------------------------------------------------
(* C12 *)

\* C12: every GetObject request that Create, Update or Read has the deployer
\* issue names a non-empty bucket and a non-empty key, and a source string
\* whose part before or after its first '/' is empty never gets as far as a
\* call of the deployer.
C12_LocatorNonEmpty ==
    call.name \in {"Create", "Update", "Read"} =>
        /\ \A i \in DOMAIN gets : gets[i].bucket # <<>> /\ gets[i].key # <<>>
        /\ (call.source \in {<<"s", Slash>>, <<Slash, "k">>} => ~ret.called)

----------------------------------------------------------------------------
(* C13 *)

\* filepath.Ext of the entry names of the model
Ext(name) ==
    CASE name = "style.css" -> ".css"
      [] name \in {"file1.txt", "file2.txt", "file3.txt"} -> ".txt"
      [] OTHER -> ""

\* the extension -> MIME type table (mime.TypeByExtension), "" when the
\* extension has no mapping
TypeByExtension(ext) ==
    CASE ext = ".css" -> "text/css; charset=utf-8"
      [] ext = ".txt" -> "text/plain; charset=utf-8"
      [] OTHER -> ""

\* C13: every PutObject request of Deploy carries as content type the type
\* the extension -> MIME table maps the entry name's extension to, and the
\* type sniffed from the payload only when the table has no mapping for it.
C13_ContentTypeByExtension ==
    DeployRan =>
        \A i \in DOMAIN puts :
            puts[i].ctype =
                IF TypeByExtension(Ext(puts[i].key)) # ""
                THEN TypeByExtension(Ext(puts[i].key))
                ELSE DetectContentType(puts[i].body)

----------------------------------------------------------------------------
(* C14 *)

\* C14: a successful HashesForDeployedFiles returns one entry for every
\* object the target bucket holds, also when the bucket holds more objects
\* than one listing response carries, and each value is the object's ETag
\* without its surrounding quotes.
C14_ListingComplete ==
    (call.name = "HashesForDeployedFiles" /\ ret.err = NoErr) =>
        /\ DOMAIN ret.hashes = DOMAIN target
        /\ \A n \in DOMAIN ret.hashes : ret.hashes[n] = MD5(target[n].content)

----------------------------------------------------------------------------
(* C15 *)

\* C15: the resource state a successful Create hands back has a files
\* attribute, and every (filename, etag) element of it names an entry of the
\* deployed archive with etag equal to the md5 of that entry's content.
C15_StateCarriesFiles ==
    (call.name = "Create" /\ resp.called /\ resp.error = NoErr) =>
        /\ "files" \in SchemaAttributes
        /\ \A n \in DOMAIN Files(resp.state) :
              /\ n \in EntryNames(Fetched)
              /\ Files(resp.state)[n] = MD5(LastPayload(Fetched, n))

----------------------------------------------------------------------------
(* C16 *)

\* C16: a Create or Update whose runDeployment succeeded reports no error and
\* leaves as resource state exactly the planned values; one whose
\* runDeployment failed (bad locator, fetch, upload or digest failure) reports
\* an error and leaves the resource state, or its absence, as it was before,
\* even when objects were uploaded.
C16_StateWrittenOnSuccessOnly ==
    [][call'.name \in {"Create", "Update"} =>
        IF ret'.called /\ ret'.err = NoErr
        THEN resp'.error = NoErr /\ tfstate' = plan'
        ELSE resp'.error # NoErr /\ tfstate' = tfstate]_vars

\* an Update whose second upload failed: one object was written to the
\* target and the stored state is still the one of the earlier Create
C16_Witness ==
    /\ call.name = "Update"
    /\ UploadFailed
    /\ Len(puts) = 2
    /\ resp.error # NoErr
    /\ tfstate.exists
    /\ tfstate.source_version = 1
    /\ target["file1.txt"].content = "A"
    /\ Fetched = DupZip.files

----------------------------------------------------------------------------
(* C17 *)

\* Deploy returned the error of a failed download or of a failed unzip
FetchFailed ==
    /\ DeployRan
    /\ ret.err.wrap \in {<<"failed to download object from S3">>,
                         <<"failed to unzip file">>}

\* C17: every run of Deploy issues exactly one GetObject request; when the
\* storage service does not answer it with a valid ZIP archive, Deploy returns
\* the download or unzip error; and a Deploy that returns such an error has
\* issued no PutObject, returns no FingerprintSet and leaves the target bucket
\* exactly as it was.
C17_FetchFirstAndOnce ==
    [][DeployRan' =>
        LET answer == GetObject(source', gets'[1], NoFault)
        IN  /\ Len(gets') = 1
            /\ (~answer.ok \/ ~answer.body.isZip) => FetchFailed'
            /\ FetchFailed' =>
                  /\ puts' = <<>>
                  /\ ret'.hashes = NoHashes
                  /\ target' = target]_vars

\* the latest version of the source object is not a ZIP archive: Deploy
\* failed on it and the objects of the earlier deployment are untouched
C17_Witness ==
    /\ call.name = "Deploy"
    /\ ret.err.wrap = <<"failed to unzip file">>
    /\ Len(gets) = 1
    /\ puts = <<>>
    /\ DOMAIN target = {"file1.txt", "file2.txt", "file3.txt"}

----------------------------------------------------------------------------
(* C18 *)

\* an entry of the archive could not be opened or read
EntryReadFailed == ret.called /\ ret.err.wrap = <<"failed to read zipped file content">>

Unreadable(files) == {i \in DOMAIN files : ~files[i].readable}

FirstUnreadable(files) ==
    CHOOSE i \in Unreadable(files) : \A j \in Unreadable(files) : i <= j

\* Deploy returns a FingerprintSet exactly when the fetch, every upload and
\* every digest succeeded, and any failure of Deploy or HashesForArtifact
\* returns no mapping at all, not even of the entries before the failure
FingerprintsIffAllSucceeded ==
    /\ DeployRan =>
          LET answer == GetObject(source, gets[1], NoFault)
              A == answer.body.files
          IN  IF ret.err = NoErr
              THEN /\ answer.ok /\ answer.body.isZip
                   /\ Unreadable(A) = {}
                   /\ Len(puts) = Len(A)
                   /\ \A i \in DOMAIN A : puts[i].key = A[i].name
                   /\ DOMAIN ret.hashes = EntryNames(A)
              ELSE /\ ret.hashes = NoHashes
                   /\ \/ FetchFailed
                      \/ UploadFailed /\ Len(puts) >= 1
                      \/ EntryReadFailed /\ Unreadable(A) # {}
    /\ (ret.called /\ call.name \in {"HashesForArtifact", "Read"}) =>
          LET answer == GetObject(source, gets[1], NoFault)
          IN  (answer.ok /\ Unreadable(answer.body.files) # {}) =>
                  ret.err # NoErr /\ ret.hashes = NoHashes

----------------------------------------------------------------------------
(* C19 *)

\* C19: after a successful Deploy, every name of the returned FingerprintSet
\* is stored in the target with a content identifier equal to its returned
\* fingerprint, and both are the md5 of the payload of the last archive entry
\* that bears the name.
C19_FingerprintsAgreeWithTarget ==
    DeploySucceeded =>
        \A n \in DOMAIN ret.hashes :
            /\ n \in DOMAIN target
            /\ ContentId(target[n]) = ret.hashes[n]
            /\ ret.hashes[n] = MD5(LastPayload(Fetched, n))

\* a Create deployed the archive with two entries named file1.txt to an
\* empty target: the object and the fingerprint are those of the second
C19_Witness ==
    /\ call.name = "Create"
    /\ DeploySucceeded
    /\ Fetched = DupZip.files
    /\ DOMAIN target = {"file1.txt"}
    /\ target["file1.txt"].content = "B"
    /\ ret.hashes = ("file1.txt" :> MD5("B"))

----------------------------------------------------------------------------
(* C20 *)

\* C20: Delete calls nothing of the deployer and issues no GetObject,
\* PutObject or ListObjectsV2 request, and leaves every object of the target
\* bucket and every version of the source object as they were.
C20_DeleteTouchesNoStorage ==
    [][call'.name = "Delete" =>
          /\ ~ret'.called
          /\ gets' = <<>>
          /\ puts' = <<>>
          /\ lists' = 0
          /\ target' = target
          /\ source' = source]_vars

\* the resource was deleted after its three files had been deployed: the
\* state is gone, the objects are still in the target
C20_Witness ==
    /\ call.name = "Delete"
    /\ ~tfstate.exists
    /\ DOMAIN target = {"file1.txt", "file2.txt", "file3.txt"}
    /\ target["file1.txt"].content = "A"
    /\ target["file2.txt"].content = "C"
    /\ target["file3.txt"].content = "D"

====
